---------------------------- MODULE Spec2Model ----------------------------
(***************************************************************************)
(* QSL card generator (src/qsl_card_generator.py): the form state of       *)
(* class QSLCardGenerator, the settings file, the LaTeX rendering and the  *)
(* PDF generation, as a state machine with one action per handler.         *)
(*                                                                         *)
(* Strings are TLA+ strings; \o is Python's string concatenation.  The     *)
(* rendered document is the f-string of generate_latex_code: its literal   *)
(* chunks (Literals) interleaved with the values of the local variables    *)
(* named by its replacement fields (Slots).                                *)
(***************************************************************************)
EXTENDS Integers, Sequences, FiniteSets, TLC

(***************************************************************************)
(* Bounds of the model.                                                    *)
(***************************************************************************)
\* user edits (typing in an entry, clicking a radio button, or a caller's
\* assignment to the CLI record) in one behaviour
MaxEdits == 1
\* load_settings calls that find no settings file, per constructed form
MaxDefaultLoads == 2
\* changes of the settings file made outside the program, after its start
MaxFileChanges == 1
\* scratch directories that may be left on disk
MaxScratch == 1

(***************************************************************************)
(* The field names.                                                        *)
(***************************************************************************)
\* setup_station_tab: labels
StationFields ==
  {"callsign", "operator_name", "qth_city", "qth_state", "country",
   "grid", "cq_zone", "itu_zone", "email", "qrz_url"}

\* setup_station_tab: equipment_labels
EquipmentFields == {"transceiver", "power", "antenna", "satellite"}

\* setup_station_tab: background image and logo_configs
ImageFields ==
  {"background_image", "logo1", "logo1_scale", "logo2", "logo2_scale",
   "logo3", "logo3_scale"}

\* setup_contact_tab: the ttk.Entry widgets
ContactEntryFields ==
  {"via", "to_station", "their_call", "date", "time", "band", "mode",
   "report", "portable_location"}

\* setup_contact_tab: the tk.StringVar fields behind the radio buttons
ChoiceFields == {"qth_type", "qsl_type", "qsl_request"}

EntryFields ==
  StationFields \cup EquipmentFields \cup ImageFields \cup ContactEntryFields

FieldNames == EntryFields \cup ChoiceFields

\* isinstance(field, tk.StringVar)
IsStringVar(field_name) == field_name \in ChoiceFields

\* the value= of the two ttk.Radiobutton of each choice field
RadioValues(field_name) ==
  CASE field_name = "qth_type" -> {"home", "portable"}
    [] field_name = "qsl_type" -> {"qso", "swl"}
    [] field_name = "qsl_request" -> {"pse", "tnx"}

\* tk.StringVar(value=...) of each choice field
StringVarInitial(field_name) ==
  CASE field_name = "qth_type" -> "home"
    [] field_name = "qsl_type" -> "qso"
    [] field_name = "qsl_request" -> "tnx"

EmptyMap == [k \in {} |-> ""]

(***************************************************************************)
(* Inputs: what a user may type, what a settings file may hold.            *)
(***************************************************************************)
\* text typed into an entry: nothing, or text with LaTeX special characters
EditValues == {"", "R&D_5%"}

\* the entries the user edits: one or more of each group of widgets
EditTargets ==
  {"callsign", "power", "background_image", "logo2", "logo2_scale",
   "their_call", "portable_location"}

\* values a caller may assign in the CLI record
DataValues == {"", "R&D_5%", "mobile"}

HomeDir == "/home/op"

\* os.path.expanduser("~/.qsl_generator_settings.json")
settings_file == HomeDir \o "/.qsl_generator_settings.json"

\* the settings file on disk: absent, not JSON, or a JSON object.  The
\* object is kept as the dict json.load returns: json.dump followed by
\* json.load gives back a dict of strings key by key, so what a save and a
\* later load change is what SettingsOf leaves out and what LoadFrom does
\* with each key.
NoFile == [exists |-> FALSE, valid |-> FALSE, settings |-> EmptyMap]

CorruptFile == [exists |-> TRUE, valid |-> FALSE, settings |-> EmptyMap]

JsonFile(settings) == [exists |-> TRUE, valid |-> TRUE, settings |-> settings]

\* a hand-edited file: a few station fields, contact and choice fields, an
\* unknown key, and choice values outside the radio buttons' literals
HandEdited1 ==
  JsonFile(("callsign" :> "K1ABC") @@ ("their_call" :> "DL1XYZ") @@
           ("qth_type" :> "mobile") @@ ("qsl_type" :> "") @@
           ("qsl_request" :> "PSE") @@ ("logo1" :> "") @@
           ("logo1_scale" :> "0.5") @@ ("comment" :> "edited by hand"))

\* a hand-edited file: every image field blank, the second radio values
HandEdited2 ==
  JsonFile([k \in ImageFields |-> ""] @@ ("qth_type" :> "portable") @@
           ("qsl_type" :> "swl") @@ ("qsl_request" :> "pse") @@
           ("power" :> "100"))

ExternalFiles == {NoFile, CorruptFile, HandEdited1, HandEdited2}

(***************************************************************************)
(* State.                                                                  *)
(***************************************************************************)
VARIABLES
  gui,            \* TRUE: constructed with a root window; FALSE: CLI mode
  fields,         \* self.fields: field name -> content of its widget
  data,           \* self.data (CLI mode): field name -> value
  status_label,   \* text of the status bar
  output_text,    \* content of the output pane ("" when blank)
  file,           \* the settings file on disk
  scratch,        \* scratch directories existing on disk
  dialogs,        \* message boxes shown by the last handler
  last,           \* the last handler run and what it did
  rendered,       \* the last call of generate_latex_code: inputs, result
  saved_form,     \* station, equipment and image entries as they were when
                  \* save_settings wrote the file now on disk (else empty)
  nFileChanges,   \* changes of the settings file from outside so far
  nEdits,         \* edits so far
  nDefaultLoads,  \* load_settings calls without a file, on this form
  clipboard,      \* the clipboard: "" until the program puts text on it
  tex_file        \* the file "Save LaTeX" wrote last: its name and content

vars ==
  << gui, fields, data, status_label, output_text, file, scratch, dialogs,
     last, rendered, saved_form, nFileChanges, nEdits, nDefaultLoads,
     clipboard, tex_file >>

(***************************************************************************)
(* get_field_value and generate_latex_code.                                *)
(***************************************************************************)
get_field_value(field_name) ==
  IF gui
    THEN IF field_name \notin DOMAIN fields
           THEN ""
           ELSE fields[field_name]
    ELSE IF field_name \in DOMAIN data THEN data[field_name] ELSE ""

\* Python's  x or d  on strings: d when x is the empty string
Or(x, d) == IF x = "" THEN d ELSE x

callsign == get_field_value("callsign")

operator_name == get_field_value("operator_name")

qth_city == get_field_value("qth_city")

qth_state == get_field_value("qth_state")

country == get_field_value("country")

grid == get_field_value("grid")

cq_zone == get_field_value("cq_zone")

itu_zone == get_field_value("itu_zone")

email == get_field_value("email")

qrz_url == get_field_value("qrz_url")

via == get_field_value("via")

to_station == get_field_value("to_station")

their_call == get_field_value("their_call")

date == get_field_value("date")

time == get_field_value("time")

band == get_field_value("band")

mode == get_field_value("mode")

report == get_field_value("report")

qth_type == get_field_value("qth_type")

portable_location == get_field_value("portable_location")

qsl_type == get_field_value("qsl_type")

qsl_request == get_field_value("qsl_request")

transceiver == get_field_value("transceiver")

\* faulty variant: a default substituted for an empty power
power_defaulted == Or(get_field_value("power"), "100")

power == get_field_value("power")

antenna == get_field_value("antenna")

satellite == get_field_value("satellite")

background_image == Or(get_field_value("background_image"), "foto_antenas.jpg")

\* faulty variant: logo1 without its default
logo1_raw == get_field_value("logo1")

logo1 == Or(get_field_value("logo1"), "logo_ure_negro.png")

logo1_scale == Or(get_field_value("logo1_scale"), "0.07")

logo2 == Or(get_field_value("logo2"), "qrz_com.png")

logo2_scale == Or(get_field_value("logo2_scale"), "0.2")

logo3 == Or(get_field_value("logo3"), "lotw.png")

logo3_scale == Or(get_field_value("logo3_scale"), "0.1")

Checked == "$\\boxtimes$"

Unchecked == "$\\square$"

home_check == IF qth_type = "home" THEN Checked ELSE Unchecked

\* faulty variant: the portable marker as the complement of the home marker
portable_check_else == IF qth_type = "home" THEN Unchecked ELSE Checked

portable_check == IF qth_type = "portable" THEN Checked ELSE Unchecked

qso_check == IF qsl_type = "qso" THEN Checked ELSE Unchecked

swl_check == IF qsl_type = "swl" THEN Checked ELSE Unchecked

pse_check == IF qsl_request = "pse" THEN Checked ELSE Unchecked

\* faulty variant: the TNX marker inverted
tnx_check_inverted == IF qsl_request = "tnx" THEN Unchecked ELSE Checked

tnx_check == IF qsl_request = "tnx" THEN Checked ELSE Unchecked

\* the value of the local variable of generate_latex_code called name
Local(name) ==
  CASE name = "callsign" -> callsign
    [] name = "operator_name" -> operator_name
    [] name = "qth_city" -> qth_city
    [] name = "qth_state" -> qth_state
    [] name = "country" -> country
    [] name = "grid" -> grid
    [] name = "cq_zone" -> cq_zone
    [] name = "itu_zone" -> itu_zone
    [] name = "email" -> email
    [] name = "qrz_url" -> qrz_url
    [] name = "via" -> via
    [] name = "to_station" -> to_station
    [] name = "their_call" -> their_call
    [] name = "date" -> date
    [] name = "time" -> time
    [] name = "band" -> band
    [] name = "mode" -> mode
    [] name = "report" -> report
    [] name = "qth_type" -> qth_type
    [] name = "portable_location" -> portable_location
    [] name = "qsl_type" -> qsl_type
    [] name = "qsl_request" -> qsl_request
    [] name = "transceiver" -> transceiver
    [] name = "power" -> power
    [] name = "antenna" -> antenna
    [] name = "satellite" -> satellite
    [] name = "background_image" -> background_image
    [] name = "logo1" -> logo1
    [] name = "logo1_scale" -> logo1_scale
    [] name = "logo2" -> logo2
    [] name = "logo2_scale" -> logo2_scale
    [] name = "logo3" -> logo3
    [] name = "logo3_scale" -> logo3_scale
    [] name = "home_check" -> home_check
    [] name = "portable_check" -> portable_check
    [] name = "qso_check" -> qso_check
    [] name = "swl_check" -> swl_check
    [] name = "pse_check" -> pse_check
    [] name = "tnx_check" -> tnx_check
Literals ==
  << "% QSL Card design by Ian Renton M0TRT. Public domain. Based on an example by Fabian Kurz, DJ5CW.\n" \o
     "\n" \o
     "\\documentclass[10pt]{article}\n" \o
     "\\pagestyle{empty}\n" \o
     "\\usepackage{array}\n" \o
     "\\usepackage[T1]{fontenc}\n" \o
     "\\usepackage{tgschola}\n" \o
     "\\usepackage{amsmath}\n" \o
     "\\usepackage{amssymb}\n" \o
     "\\usepackage{latexsym}\n" \o
     "\\usepackage{graphicx}\n" \o
     "\\usepackage[export]{adjustbox}\n" \o
     "\\usepackage{eso-pic}\n" \o
     "\\usepackage{xcolor}\n" \o
     "\\usepackage{anyfontsize}\n" \o
     "\\usepackage[outline]{contour}\n" \o
     "\\usepackage[papersize={14cm,9cm}, margin=0.5cm, marginratio=1:1]{geometry}\n" \o
     "\\setlength{\\parindent}{0pt}\n" \o
     "\\setlength{\\parskip}{0pt}\n" \o
     "\\AddToShipoutPictureBG{\n" \o
     "    \\ifodd\\value{page}\n" \o
     "      \\AtPageCenter{\n" \o
     "        \\includegraphics[width=\\paperwidth,height=\\paperheight,valign=M,center=-0.55em]{",
     "}%\n" \o
     "        }\n" \o
     "    \\fi\n" \o
     "}\n" \o
     "\n" \o
     "\\begin{document}\n" \o
     "\\vspace{0.5cm}\n" \o
     "\\begin{center}\n" \o
     "\\fontfamily{phv}\\selectfont \\fontsize{60}{72}\\selectfont \\textcolor{white}{\\contour{black}{\\textbf{",
     "}}}\n" \o
     "\\end{center}\n" \o
     "\\vspace{4.5cm}\n" \o
     "\\hfill\n" \o
     "\\begin{minipage}{0.5\\textwidth}\n" \o
     "\\begin{center}\n" \o
     "{\\huge {\\fontfamily{phv}\\selectfont \\textcolor{white}{\\contour{black}{\\textbf{",
     "}}}}}\n" \o
     "\n" \o
     "\\vspace{6pt}\n" \o
     "{\\Large {\\fontfamily{phv}\\selectfont \\textcolor{white}{\\contour{black}{\\textbf{",
     ", ",
     "}}}}}\n" \o
     "\\end{center}\n" \o
     "\\end{minipage}\n" \o
     "\\newpage\n" \o
     "\\begin{minipage}{0.6\\textwidth}\n" \o
     "{\\Large \\textbf{",
     "}} \\quad {\\textbf{",
     "}}\n" \o
     "\n" \o
     "{\\small ",
     ", ",
     ", ",
     "}\n" \o
     "\n" \o
     "{\\small Grid: ",
     " \\quad CQ: ",
     " \\quad ITU: ",
     "}\n" \o
     "\n" \o
     "{\\small ",
     " \\quad ",
     "}\n" \o
     "\n" \o
     "\\end{minipage}\n" \o
     "\\hfill\n" \o
     "\\begin{minipage}{0.35\\textwidth}\n" \o
     "\\begin{tabular}{ | m{11.7em} | }\n" \o
     "\\hline\n" \o
     "{\\scriptsize VIA \\vphantom{$\\int\\limits_{\\dfrac aa}$} ",
     "}\\\\\n" \o
     "\\hline\n" \o
     "{\\scriptsize TO STATION \\vphantom{$\\int\\limits_{\\dfrac aa}$} ",
     "}\\\\\n" \o
     "\\hline\n" \o
     "\\end{tabular}\n" \o
     "\\end{minipage}\n" \o
     "\n" \o
     "\\smallskip\n" \o
     "\n" \o
     "\\begin{center}\n" \o
     "\\begin{tabular}{|w{c}{5em}|w{c}{6.5em}|w{c}{6em}|w{c}{4em}|w{c}{4em}|w{c}{4em}|}\n" \o
     "\\hline\n" \o
     "{\\footnotesize Your Call}&{\\footnotesize Date (D/M/Y)}&{\\footnotesize Time (UTC)}&{\\footnotesize Band}&{\\footnotesize Mode}&{\\footnotesize Report}\\\\\n" \o
     "\\hline\n" \o
     "\\vphantom{$\\dfrac b b$} ",
     " & ",
     " & ",
     " & ",
     " & ",
     " & ",
     " \\\\\n" \o
     "\\hline\n" \o
     "\\end{tabular}\n" \o
     "\n" \o
     "\\bigskip\n" \o
     "\n" \o
     "\\begin{tabular}{|w{c}{4em}|w{c}{20em}|w{c}{4em}|w{c}{3.9em}|}\n" \o
     "\\hline\n" \o
     "{\\footnotesize My QTH} & \\multicolumn{3}{l|}{{\\footnotesize \\vphantom{$\\dfrac b b$} ",
     " Home \\enspace ",
     " Portable: ",
     "}} \\\\\n" \o
     "\\hline\n" \o
     "{\\footnotesize Transceiver} & {\\footnotesize \\vphantom{$\\dfrac b b$} ",
     "} & {\\footnotesize Power} & {\\footnotesize \\vphantom{$\\dfrac b b$} ",
     " W} \\\\\n" \o
     "\\hline\n" \o
     "{\\footnotesize Antenna} & {\\footnotesize \\vphantom{$\\dfrac b b$} ",
     "} & {\\footnotesize Via Sat.} & {\\footnotesize \\vphantom{$\\dfrac b b$} ",
     "} \\\\\n" \o
     "\\hline\n" \o
     "\\end{tabular}\n" \o
     "\\end{center}\n" \o
     "\\vspace{3pt}\n" \o
     "\\begin{minipage}{0.65\\textwidth}\n" \o
     "{\\footnotesize Thanking you for: \\quad ",
     " our QSO \\quad ",
     " your SWL report}\n" \o
     "\\end{minipage}\n" \o
     "\\hfill\n" \o
     "\\begin{minipage}{0.3\\textwidth}\n" \o
     "{\\footnotesize QSL \\quad \\quad ",
     " PSE \\quad ",
     " TNX}\n" \o
     "\\end{minipage}\n" \o
     "\n" \o
     "\\begin{minipage}{0.65\\textwidth}\n" \o
     "\\vspace{2em}\n" \o
     "\\includegraphics[width=",
     "\\textwidth,valign=m]{",
     "}\n" \o
     "\\includegraphics[width=",
     "\\textwidth,valign=m]{",
     "}\n" \o
     "\\includegraphics[width=",
     "\\textwidth,valign=m]{",
     "}\n" \o
     "\\end{minipage}\n" \o
     "\\hfill\n" \o
     "\\begin{minipage}{0.3\\textwidth}\n" \o
     "\\vspace{0.5em}\n" \o
     "{\\footnotesize VY 73,}\n" \o
     "\n" \o
     "\\vspace{1.5em}\n" \o
     "\\makebox{\\rule[-0.5em]{11em}{0.4pt}}\n" \o
     "\\end{minipage}\n" \o
     "\n" \o
     "\\end{document}\n" >>

Slots ==
  << "background_image", "callsign", "operator_name", "qth_city",
     "country", "callsign", "operator_name", "qth_city",
     "qth_state", "country", "grid", "cq_zone",
     "itu_zone", "email", "qrz_url", "via",
     "to_station", "their_call", "date", "time",
     "band", "mode", "report", "home_check",
     "portable_check", "portable_location", "transceiver", "power",
     "antenna", "satellite", "qso_check", "swl_check",
     "pse_check", "tnx_check", "logo1_scale", "logo1",
     "logo2_scale", "logo2", "logo3_scale", "logo3" >>
\* the pieces of the f-string of generate_latex_code, in order: its literal
\* chunks, and between them the values of its replacement fields
Pieces ==
  [i \in 1..(2 * Len(Slots) + 1) |->
     IF i % 2 = 1 THEN Literals[(i + 1) \div 2] ELSE Local(Slots[i \div 2])]

\* the concatenation of pieces lo..hi of p
RECURSIVE Join(_, _, _)
Join(p, lo, hi) ==
  IF lo = hi
    THEN p[lo]
    ELSE LET mid == (lo + hi) \div 2
         IN Join(p, lo, mid) \o Join(p, mid + 1, hi)

\* faulty variant: the document appended to what the output pane holds
generate_latex_code_appending ==
  output_text \o Join(Pieces, 1, 2 * Len(Slots) + 1)

generate_latex_code == Join(Pieces, 1, 2 * Len(Slots) + 1)

\* what one call of generate_latex_code read and returned: the value of every
\* field, the text put at each replacement field, and the whole text
NoRender ==
  [by |-> "none", inputs |-> EmptyMap, slots |-> << >>, text |-> "",
   repeat |-> FALSE, prev_by |-> "none", prev_text |-> ""]

\* repeat: the call before this one read the same value of every field;
\* prev_by, prev_text: then, who made that call and what it returned
RenderRecord(caller) ==
  LET inputs == [n \in FieldNames |-> get_field_value(n)]
      repeat == rendered.by # "none" /\ rendered.inputs = inputs
  IN [by |-> caller,
      inputs |-> inputs,
      slots |-> [i \in 1..Len(Slots) |-> Local(Slots[i])],
      text |-> generate_latex_code,
      repeat |-> repeat,
      prev_by |-> IF repeat THEN rendered.by ELSE "none",
      prev_text |-> IF repeat THEN rendered.text ELSE ""]

(***************************************************************************)
(* Message boxes.                                                          *)
(***************************************************************************)
Dialog(kind, title, message) ==
  [kind |-> kind, title |-> title, message |-> message]

\* str(e) of the exceptions the environment may raise
IOErrorText == "[Errno 13] Permission denied"

JSONErrorText == "Expecting value: line 1 column 1 (char 0)"

(***************************************************************************)
(* save_settings and load_settings.                                        *)
(***************************************************************************)
\* faulty variant: a contact field on the list of saved fields
save_fields_with_contact ==
  {"callsign", "operator_name", "qth_city", "qth_state", "country",
   "grid", "cq_zone", "itu_zone", "email", "qrz_url",
   "transceiver", "power", "antenna", "satellite",
   "background_image", "logo1", "logo2", "logo3",
   "logo1_scale", "logo2_scale", "logo3_scale", "their_call"}

\* faulty variant: a field left off the list of saved fields
save_fields_short ==
  {"callsign", "operator_name", "qth_city", "qth_state", "country",
   "grid", "cq_zone", "itu_zone", "email", "qrz_url",
   "transceiver", "power", "antenna", "satellite",
   "background_image", "logo1", "logo2", "logo3",
   "logo1_scale", "logo2_scale"}

\* the list save_fields of save_settings
save_fields ==
  {"callsign", "operator_name", "qth_city", "qth_state", "country",
   "grid", "cq_zone", "itu_zone", "email", "qrz_url",
   "transceiver", "power", "antenna", "satellite",
   "background_image", "logo1", "logo2", "logo3",
   "logo1_scale", "logo2_scale", "logo3_scale"}

\* the dict save_settings builds from the form
SettingsOf(f) == [n \in save_fields \cap DOMAIN f |-> f[n]]

\* the dict load_settings uses when there is no settings file; a character
\* outside ASCII is written as its \uXXXX escape in every string of this module
\* faulty variant: the two zones exchanged in the defaults
defaults_zones_swapped ==
  ("callsign" :> "EA7HQL") @@ ("operator_name" :> "Andr\\u00e9s Ortiz") @@
  ("qth_city" :> "Torremolinos") @@ ("qth_state" :> "M\\u00e1laga") @@
  ("country" :> "SPAIN") @@ ("grid" :> "IM76SP") @@ ("cq_zone" :> "37") @@
  ("itu_zone" :> "14") @@ ("email" :> "ea7hql@gmail.com") @@
  ("qrz_url" :> "https://www.qrz.com") @@ ("transceiver" :> "") @@
  ("power" :> "") @@ ("antenna" :> "") @@ ("satellite" :> "") @@
  ("background_image" :> "foto_antenas.jpg") @@
  ("logo1" :> "logo_ure_negro.png") @@ ("logo1_scale" :> "0.07") @@
  ("logo2" :> "qrz_com.png") @@ ("logo2_scale" :> "0.2") @@
  ("logo3" :> "lotw.png") @@ ("logo3_scale" :> "0.1")

defaults ==
  ("callsign" :> "EA7HQL") @@ ("operator_name" :> "Andr\\u00e9s Ortiz") @@
  ("qth_city" :> "Torremolinos") @@ ("qth_state" :> "M\\u00e1laga") @@
  ("country" :> "SPAIN") @@ ("grid" :> "IM76SP") @@ ("cq_zone" :> "14") @@
  ("itu_zone" :> "37") @@ ("email" :> "ea7hql@gmail.com") @@
  ("qrz_url" :> "https://www.qrz.com") @@ ("transceiver" :> "") @@
  ("power" :> "") @@ ("antenna" :> "") @@ ("satellite" :> "") @@
  ("background_image" :> "foto_antenas.jpg") @@
  ("logo1" :> "logo_ure_negro.png") @@ ("logo1_scale" :> "0.07") @@
  ("logo2" :> "qrz_com.png") @@ ("logo2_scale" :> "0.2") @@
  ("logo3" :> "lotw.png") @@ ("logo3_scale" :> "0.1")

\* ttk.Entry.insert(0, value): value goes in front of the present content
EntryInsert0(content, value) == value \o content

\* ttk.Entry.delete(0, tk.END)
EntryDeleteAll(content) == ""

\* load_settings, no settings file: the loop over defaults.items()
LoadDefaults(f) ==
  [n \in DOMAIN f |->
     IF n \in DOMAIN defaults /\ ~IsStringVar(n)
       THEN EntryInsert0(f[n], defaults[n])
       ELSE f[n]]

\* faulty variant: the entries are not emptied before the value is inserted
LoadFrom_insert_only(f, settings) ==
  [n \in DOMAIN f |->
     IF n \in DOMAIN settings
       THEN IF IsStringVar(n)
              THEN settings[n]
              ELSE EntryInsert0(f[n], settings[n])
       ELSE f[n]]

\* load_settings, settings file read: the loop over settings.items()
LoadFrom(f, settings) ==
  [n \in DOMAIN f |->
     IF n \in DOMAIN settings
       THEN IF IsStringVar(n)
              THEN settings[n]
              ELSE EntryInsert0(EntryDeleteAll(f[n]), settings[n])
       ELSE f[n]]

\* faulty variant: the defaults are loaded when the file cannot be read
LoadSettings_defaults_on_error(f, fl, fault) ==
  IF ~fl.exists \/ fault = "open" \/ ~fl.valid
    THEN [outcome |-> IF fl.exists THEN "error" ELSE "defaults",
          fields |-> LoadDefaults(f),
          status |-> "Default values loaded (no saved settings found)",
          dialogs |-> << >>]
    ELSE [outcome |-> "loaded", fields |-> LoadFrom(f, fl.settings),
          status |-> "Settings loaded from " \o settings_file,
          dialogs |-> << >>]

\* load_settings on form content f with the settings file fl; fault = "open"
\* when opening the file raises.  The new form content, status bar text (""
\* when it is left alone), and message boxes.
LoadSettings(f, fl, fault) ==
  IF ~fl.exists
    THEN [outcome |-> "defaults", fields |-> LoadDefaults(f),
          status |-> "Default values loaded (no saved settings found)",
          dialogs |-> << >>]
    ELSE IF fault = "open" \/ ~fl.valid
      THEN LET e == IF fault = "open" THEN IOErrorText ELSE JSONErrorText
           IN [outcome |-> "error", fields |-> f,
               status |-> "Error loading settings: " \o e,
               dialogs |-> << Dialog("showerror", "Error",
                                     "Failed to load settings: " \o e) >>]
      ELSE [outcome |-> "loaded", fields |-> LoadFrom(f, fl.settings),
            status |-> "Settings loaded from " \o settings_file,
            dialogs |-> << >>]

\* the widgets as the setup_*_tab methods create them
NewWidgets ==
  [n \in FieldNames |-> IF IsStringVar(n) THEN StringVarInitial(n) ELSE ""]

\* init_cli_defaults
CliDefaults ==
  ("callsign" :> "EA7HQL") @@ ("operator_name" :> "Andr\\u00e9s Ortiz") @@
  ("qth_city" :> "Torremolinos") @@ ("qth_state" :> "M\\u00e1laga") @@
  ("country" :> "SPAIN") @@ ("grid" :> "IM76SP") @@ ("cq_zone" :> "14") @@
  ("itu_zone" :> "37") @@ ("email" :> "ea7hql@gmail.com") @@
  ("qrz_url" :> "https://www.qrz.com") @@ ("via" :> "") @@
  ("to_station" :> "") @@ ("their_call" :> "") @@ ("date" :> "") @@
  ("time" :> "") @@ ("band" :> "") @@ ("mode" :> "") @@ ("report" :> "") @@
  ("qth_type" :> "home") @@ ("portable_location" :> "") @@
  ("qsl_type" :> "qso") @@ ("qsl_request" :> "tnx") @@
  ("transceiver" :> "") @@ ("power" :> "") @@ ("antenna" :> "") @@
  ("satellite" :> "") @@ ("background_image" :> "foto_antenas.jpg") @@
  ("logo1" :> "logo_ure_negro.png") @@ ("logo1_scale" :> "0.07") @@
  ("logo2" :> "qrz_com.png") @@ ("logo2_scale" :> "0.2") @@
  ("logo3" :> "lotw.png") @@ ("logo3_scale" :> "0.1")

(***************************************************************************)
(* Construction.                                                           *)
(***************************************************************************)
\* QSLCardGenerator(root), GUI mode, with settings file fl on disk: the
\* widgets are created, then load_settings runs
NewForm(fl) == LoadSettings(NewWidgets, fl, "none")

\* no file has been written by "Save LaTeX"
NoTexFile == [name |-> "", content |-> ""]

InitGui ==
  \E fl \in ExternalFiles :
    /\ gui = TRUE
    /\ file = fl
    /\ fields = NewForm(fl).fields
    /\ data = EmptyMap
    /\ status_label = NewForm(fl).status
    /\ output_text = ""
    /\ scratch = 0
    /\ dialogs = NewForm(fl).dialogs
    /\ last = [op |-> "__init__", outcome |-> NewForm(fl).outcome]
    /\ rendered = NoRender
    /\ saved_form = EmptyMap
    /\ nFileChanges = 0
    /\ nEdits = 0
    /\ nDefaultLoads = IF fl.exists THEN 0 ELSE 1
    /\ clipboard = ""
    /\ tex_file = NoTexFile

\* QSLCardGenerator(), command-line mode: no widgets, self.data
InitCli ==
  /\ gui = FALSE
  /\ file = NoFile
  /\ fields = EmptyMap
  /\ data = CliDefaults
  /\ status_label = ""
  /\ output_text = ""
  /\ scratch = 0
  /\ dialogs = << >>
  /\ last = [op |-> "__init__", outcome |-> "cli"]
  /\ rendered = NoRender
  /\ saved_form = EmptyMap
  /\ nFileChanges = 0
  /\ nEdits = 0
  /\ nDefaultLoads = 0
  /\ clipboard = ""
  /\ tex_file = NoTexFile

Init == InitGui \/ InitCli

\* main() run again: the window is closed and a new form is constructed
Restart ==
  /\ gui
  /\ \E r \in {NewForm(file)} :
        /\ fields' = r.fields
        /\ status_label' = r.status
        /\ dialogs' = r.dialogs
        /\ last' = [op |-> "__init__", outcome |-> r.outcome]
  /\ output_text' = ""
  /\ nDefaultLoads' = IF file.exists THEN 0 ELSE 1
  /\ UNCHANGED << gui, data, file, scratch, rendered, saved_form,
                  nFileChanges, nEdits,
                  clipboard, tex_file >>

(***************************************************************************)
(* The user and the environment.                                           *)
(***************************************************************************)
\* the user replaces the content of an entry
EditEntry(field_name, value) ==
  /\ gui
  /\ nEdits < MaxEdits
  /\ field_name \in EditTargets
  /\ fields[field_name] # value
  /\ fields' = [fields EXCEPT ![field_name] = value]
  /\ nEdits' = nEdits + 1
  /\ dialogs' = << >>
  /\ last' = [op |-> "edit", field |-> field_name]
  /\ UNCHANGED << gui, data, status_label, output_text, file, scratch,
                  rendered, saved_form, nFileChanges, nDefaultLoads,
                  clipboard, tex_file >>

\* the user clicks a radio button
SelectRadio(field_name, value) ==
  /\ gui
  /\ nEdits < MaxEdits
  /\ field_name \in ChoiceFields
  /\ value \in RadioValues(field_name)
  /\ fields[field_name] # value
  /\ fields' = [fields EXCEPT ![field_name] = value]
  /\ nEdits' = nEdits + 1
  /\ dialogs' = << >>
  /\ last' = [op |-> "edit", field |-> field_name]
  /\ UNCHANGED << gui, data, status_label, output_text, file, scratch,
                  rendered, saved_form, nFileChanges, nDefaultLoads,
                  clipboard, tex_file >>

\* CLI mode: the caller assigns self.data[field_name] = value
SetData(field_name, value) ==
  /\ ~gui
  /\ nEdits < MaxEdits
  /\ get_field_value(field_name) # value \/ field_name \notin DOMAIN data
  /\ data' = (field_name :> value) @@ data
  /\ nEdits' = nEdits + 1
  /\ last' = [op |-> "edit", field |-> field_name]
  /\ UNCHANGED << gui, fields, status_label, output_text, file, scratch,
                  dialogs, rendered, saved_form, nFileChanges,
                  nDefaultLoads,
                  clipboard, tex_file >>

\* CLI mode: the caller removes a key of self.data
DelData(field_name) ==
  /\ ~gui
  /\ nEdits < MaxEdits
  /\ field_name \in DOMAIN data
  /\ data' = [n \in DOMAIN data \ {field_name} |-> data[n]]
  /\ nEdits' = nEdits + 1
  /\ last' = [op |-> "edit", field |-> field_name]
  /\ UNCHANGED << gui, fields, status_label, output_text, file, scratch,
                  dialogs, rendered, saved_form, nFileChanges,
                  nDefaultLoads,
                  clipboard, tex_file >>

\* CLI mode: the caller calls generate_latex_code()
CallGenerateLatexCode ==
  /\ ~gui
  /\ rendered' = RenderRecord("caller")
  /\ last' = [op |-> "generate_latex_code"]
  /\ UNCHANGED << gui, fields, data, status_label, output_text, file,
                  scratch, dialogs, saved_form, nFileChanges, nEdits,
                  nDefaultLoads,
                  clipboard, tex_file >>

\* the settings file is edited, replaced or removed outside the program
FileChanged(fl) ==
  /\ gui
  /\ nFileChanges < MaxFileChanges
  /\ fl \in ExternalFiles
  /\ file # fl
  /\ file' = fl
  /\ nFileChanges' = nFileChanges + 1
  /\ saved_form' = EmptyMap
  /\ dialogs' = << >>
  /\ last' = [op |-> "file_changed"]
  /\ UNCHANGED << gui, fields, data, status_label, output_text, scratch,
                  rendered, nEdits, nDefaultLoads,
                  clipboard, tex_file >>

(***************************************************************************)
(* The handlers of the buttons.                                            *)
(***************************************************************************)
\* faulty variant: portable_location left off the list
contact_fields_short ==
  {"via", "to_station", "their_call", "date", "time", "band", "mode",
   "report"}

\* the list contact_fields of clear_contact_fields
contact_fields ==
  {"via", "to_station", "their_call", "date", "time", "band", "mode",
   "report", "portable_location"}

\* "Clear All"; answer is what the user answers to askyesno
clear_contact_fields(answer) ==
  /\ gui
  /\ dialogs' = << Dialog("askyesno", "Clear Fields",
                          "Clear all contact details fields?") >>
  /\ last' = [op |-> "clear_contact_fields", answer |-> answer]
  /\ IF answer
       THEN /\ fields' =
                 [n \in DOMAIN fields |->
                    IF n \in contact_fields /\ ~IsStringVar(n)
                      THEN EntryDeleteAll(fields[n])
                      ELSE IF n \in ChoiceFields
                        THEN StringVarInitial(n)
                        ELSE fields[n]]
            /\ status_label' = "Contact fields cleared (equipment preserved)"
       ELSE UNCHANGED << fields, status_label >>
  /\ UNCHANGED << gui, data, output_text, file, scratch, rendered,
                  saved_form, nFileChanges, nEdits, nDefaultLoads,
                  clipboard, tex_file >>

SaveFaults == {"none", "open", "write"}

\* "Save Defaults"; fault: open() raises, or json.dump raises once the file
\* has been truncated
save_settings(fault) ==
  /\ gui
  /\ fault \in SaveFaults
  /\ last' = [op |-> "save_settings", ok |-> (fault = "none")]
  /\ IF fault = "none"
       THEN /\ file' = JsonFile(SettingsOf(fields))
            /\ dialogs' = << Dialog("showinfo", "Success",
                  "Default settings saved to:\n" \o settings_file) >>
            /\ status_label' = "Settings saved successfully"
       ELSE /\ file' = IF fault = "open" THEN file ELSE CorruptFile
            /\ dialogs' = << Dialog("showerror", "Error",
                  "Failed to save settings: " \o IOErrorText) >>
            /\ status_label' = "Error saving settings: " \o IOErrorText
  /\ saved_form' =
       IF fault = "none"
         THEN [n \in StationFields \cup EquipmentFields \cup ImageFields |->
                 fields[n]]
         ELSE IF fault = "open" THEN saved_form ELSE EmptyMap
  /\ UNCHANGED << gui, fields, data, output_text, scratch, rendered,
                  nFileChanges, nEdits, nDefaultLoads,
                  clipboard, tex_file >>

LoadFaults == {"none", "open"}

\* "Load Defaults"
load_settings(fault) ==
  /\ gui
  /\ fault \in LoadFaults
  /\ fault = "open" => file.exists
  /\ ~file.exists => nDefaultLoads < MaxDefaultLoads
  /\ \E r \in {LoadSettings(fields, file, fault)} :
        /\ fields' = r.fields
        /\ status_label' = r.status
        /\ dialogs' = r.dialogs
        /\ last' = [op |-> "load_settings", outcome |-> r.outcome]
  /\ nDefaultLoads' = IF file.exists THEN nDefaultLoads ELSE nDefaultLoads + 1
  /\ UNCHANGED << gui, data, output_text, file, scratch, rendered,
                  saved_form, nFileChanges, nEdits,
                  clipboard, tex_file >>

\* "Generate LaTeX"
generate_latex ==
  /\ gui
  /\ \E call \in {RenderRecord("generate_latex")} :
        /\ output_text' = call.text
        /\ rendered' = call
  /\ status_label' = "LaTeX code generated successfully"
  /\ dialogs' = << Dialog("showinfo", "Success",
                          "LaTeX code generated successfully!") >>
  /\ last' = [op |-> "generate_latex"]
  /\ UNCHANGED << gui, fields, data, file, scratch, saved_form,
                  nFileChanges, nEdits,
                  nDefaultLoads,
                  clipboard, tex_file >>

(***************************************************************************)
(* The output pane, save_to_file and copy_to_clipboard.                    *)
(***************************************************************************)
\* what the user may leave in the output pane by typing in it: nothing,
\* white space, a note
PaneValues == {"", " \n ", "my notes"}

\* the user replaces the content of the output pane (a ScrolledText that is
\* never disabled)
EditOutput(value) ==
  /\ gui
  /\ nEdits < MaxEdits
  /\ value \in PaneValues
  /\ output_text # value
  /\ output_text' = value
  /\ nEdits' = nEdits + 1
  /\ dialogs' = << >>
  /\ last' = [op |-> "edit", field |-> "output_text"]
  /\ UNCHANGED << gui, fields, data, status_label, file, scratch, rendered,
                  saved_form, nFileChanges, nDefaultLoads, clipboard,
                  tex_file >>

\* faulty variant: the document is rendered again from the form
TextGetAll_rerender(pane) ==
  IF pane = "" THEN "\n" ELSE generate_latex_code \o "\n"

\* output_text.get(1.0, tk.END): the content of the Text widget and the
\* newline the widget ends with
TextGetAll(pane) == pane \o "\n"

\* the white-space-only strings get(1.0, tk.END) can return in this model
WhiteSpaceOnly == {"\n", " \n \n"}

\* content.strip()
Strip(content) == IF content \in WhiteSpaceOnly THEN "" ELSE content

GenerateFirstDialog ==
  Dialog("showwarning", "Warning", "Please generate LaTeX code first!")

TexPath == "/home/op/qsl_card.tex"

\* asksaveasfilename: "" when the user cancels
TexFilenames == {"", TexPath}

\* "Save LaTeX"; filename is the answer to the save dialog, fault: open()
\* raises, or write raises once the file has been truncated
save_to_file(filename, fault) ==
  /\ gui
  /\ filename \in TexFilenames
  /\ fault \in SaveFaults
  /\ \E content \in {TextGetAll(output_text)} :
       IF Strip(content) = ""
         THEN /\ filename = "" /\ fault = "none"
              /\ dialogs' = << GenerateFirstDialog >>
              /\ last' = [op |-> "save_to_file", outcome |-> "warned",
                          content |-> content]
              /\ UNCHANGED << status_label, tex_file >>
         ELSE IF filename = ""
           THEN /\ fault = "none"
                /\ dialogs' = << >>
                /\ last' = [op |-> "save_to_file", outcome |-> "cancelled",
                            content |-> content]
                /\ UNCHANGED << status_label, tex_file >>
           ELSE IF fault = "none"
             THEN /\ tex_file' = [name |-> filename, content |-> content]
                  /\ status_label' = "LaTeX file saved to " \o filename
                  /\ dialogs' = << Dialog("showinfo", "Success",
                                          "File saved to " \o filename) >>
                  /\ last' = [op |-> "save_to_file", outcome |-> "saved",
                              content |-> content]
             ELSE /\ tex_file' = IF fault = "open"
                                   THEN tex_file
                                   ELSE [name |-> filename, content |-> ""]
                  /\ status_label' = "Error saving file: " \o IOErrorText
                  /\ dialogs' = << Dialog("showerror", "Error",
                                 "Failed to save file: " \o IOErrorText) >>
                  /\ last' = [op |-> "save_to_file", outcome |-> "error",
                              content |-> content]
  /\ UNCHANGED << gui, fields, data, output_text, file, scratch, rendered,
                  saved_form, nFileChanges, nEdits, nDefaultLoads,
                  clipboard >>

\* "Copy to Clipboard"
copy_to_clipboard ==
  /\ gui
  /\ \E content \in {TextGetAll(output_text)} :
       IF Strip(content) = ""
         THEN /\ dialogs' = << GenerateFirstDialog >>
              /\ last' = [op |-> "copy_to_clipboard", outcome |-> "warned",
                          content |-> content]
              /\ UNCHANGED << status_label, clipboard >>
         ELSE /\ clipboard' = content
              /\ status_label' = "LaTeX code copied to clipboard"
              /\ dialogs' = << Dialog("showinfo", "Success",
                                      "LaTeX code copied to clipboard!") >>
              /\ last' = [op |-> "copy_to_clipboard", outcome |-> "copied",
                          content |-> content]
  /\ UNCHANGED << gui, fields, data, output_text, file, scratch, rendered,
                  saved_form, nFileChanges, nEdits, nDefaultLoads,
                  tex_file >>

(***************************************************************************)
(* generate_pdf.                                                           *)
(***************************************************************************)
\* faulty variant: the third logo left off the list
image_files_short ==
  << Or(get_field_value("background_image"), "foto_antenas.jpg"),
     Or(get_field_value("logo1"), "logo_ure_negro.png"),
     Or(get_field_value("logo2"), "qrz_com.png") >>

\* the list image_files of generate_pdf
image_files ==
  << Or(get_field_value("background_image"), "foto_antenas.jpg"),
     Or(get_field_value("logo1"), "logo_ure_negro.png"),
     Or(get_field_value("logo2"), "qrz_com.png"),
     Or(get_field_value("logo3"), "lotw.png") >>

DefaultImages ==
  {"foto_antenas.jpg", "logo_ure_negro.png", "qrz_com.png", "lotw.png"}

\* the image files the working directory may hold
Disks == { {}, {"foto_antenas.jpg"}, DefaultImages }

\* where an exception may be raised inside the try block
PdfFaults ==
  {"none", "mkdtemp", "write_tex", "copy_image", "run", "copy_pdf",
   "read_log", "rmtree"}

\* qsl_card.log: absent, without error lines, with error lines
Logs == {"absent", "clean", "errors"}

LogErrorLines == << "! Undefined control sequence.", "! LaTeX Error: File not found." >>

StdErr == "pdflatex: fatal error"

\* "\n".join(lines)
RECURSIVE JoinLines(_)
JoinLines(lines) ==
  IF lines = << >>
    THEN ""
    ELSE IF Len(lines) = 1
      THEN lines[1]
      ELSE lines[1] \o "\n" \o JoinLines(Tail(lines))

\* the bullet of the missing-images message, by its escape
MissingLine(img) == "  \\u2022 " \o img

MissingImagesDialog(missing) ==
  Dialog("askyesno", "Missing Images",
         "The following image files were not found:\n" \o
         JoinLines([i \in 1..Len(missing) |-> MissingLine(missing[i])]) \o
         "\n\nDo you want to continue anyway?\n" \o
         "(PDF generation may fail)")

NoPdflatexDialog ==
  Dialog("showerror", "Error",
         "pdflatex is not installed or not in PATH.\n\n" \o
         "Please install LaTeX:\n" \o
         "  Ubuntu/Debian: sudo apt-get install texlive-latex-base texlive-fonts-recommended\n" \o
         "  Fedora: sudo dnf install texlive-scheme-basic\n" \o
         "  macOS: brew install mactex")

TimeoutDialog ==
  Dialog("showerror", "Error",
         "PDF generation timed out. Check your LaTeX installation.")

ExceptionDialog ==
  Dialog("showerror", "Error", "Failed to generate PDF: " \o IOErrorText)

FailedDialog(log) ==
  Dialog("showerror", "Error",
         "PDF generation failed.\n\n" \o
         (IF log = "absent"
            THEN StdErr
            ELSE IF log = "errors"
              THEN "Errors found:\n" \o JoinLines(LogErrorLines)
              ELSE ""))

SavedDialog(save_path) ==
  Dialog("showinfo", "Success",
         "PDF generated successfully!\n\nSaved to:\n" \o save_path \o
         "\n\nYou can now print your QSL card.")

\* what a call of generate_pdf did, before any step is taken; env is what
\* the environment and the user answered to that call
PdfNothing ==
  [op |-> "generate_pdf", env |-> EmptyMap,
   which |-> TRUE, outcome |-> "", status |-> "",
   dialogs |-> << >>,
   rendered |-> FALSE, created |-> FALSE, removed |-> FALSE,
   tex_written |-> FALSE, staged |-> {}, missing |-> << >>,
   invoked |-> FALSE, returncode |-> 0, pdf_made |-> FALSE,
   saved_to |-> ""]

\* the except Exception clause, after the steps recorded in r
PdfException(r) ==
  [r EXCEPT !.outcome = "exception",
            !.status = "Error: " \o IOErrorText,
            !.dialogs = r.dialogs \o << ExceptionDialog >>]

\* the code after subprocess.run returned: r records the steps so far
PdfAfterRun(r, env) ==
  LET shown ==
        IF env.pdf_exists
          THEN IF env.save_path # ""
                 THEN IF env.fault = "copy_pdf"
                        THEN PdfException(r)
                        ELSE [r EXCEPT
                                !.outcome = "saved",
                                !.saved_to = env.save_path,
                                !.status = "PDF saved successfully to " \o
                                           env.save_path,
                                !.dialogs = r.dialogs \o
                                            << SavedDialog(env.save_path) >>]
                 ELSE [r EXCEPT !.outcome = "save_cancelled",
                                !.status = "PDF generation cancelled by user"]
          ELSE IF env.log # "absent" /\ env.fault = "read_log"
                 THEN PdfException(r)
                 ELSE [r EXCEPT !.outcome = "failed",
                                !.status = "PDF generation failed",
                                !.dialogs = r.dialogs \o
                                            << FailedDialog(env.log) >>]
  IN IF shown.outcome = "exception"
       THEN shown
       ELSE IF env.fault = "rmtree"
         THEN PdfException(shown)
         ELSE [shown EXCEPT !.removed = TRUE]

\* generate_pdf from the try block on
PdfTry(env) ==
  LET r0 == [PdfNothing EXCEPT !.env = env,
                               !.status = "Generating PDF...",
                               !.rendered = TRUE]
      r1 == [r0 EXCEPT !.created = TRUE]
      r2 == [r1 EXCEPT !.tex_written = TRUE]
      present == {i \in 1..Len(image_files) : image_files[i] \in env.disk}
      missing_images ==
        SelectSeq(image_files, LAMBDA img : img \notin env.disk)
      r3 == [r2 EXCEPT !.staged = {image_files[i] : i \in present},
                       !.missing = missing_images]
      r4 == IF missing_images # << >>
              THEN [r3 EXCEPT !.dialogs =
                      << MissingImagesDialog(missing_images) >>]
              ELSE r3
      r5 == [r4 EXCEPT !.status =
                         "Running pdflatex (this may take a moment)...",
                       !.invoked = TRUE]
  IN IF env.fault = "mkdtemp" THEN PdfException(r0)
     ELSE IF env.fault = "write_tex" THEN PdfException(r1)
     ELSE IF env.fault = "copy_image" /\ present # {} THEN PdfException(r2)
     ELSE IF missing_images # << >> /\ ~env.response
       THEN IF env.fault = "rmtree"
              THEN PdfException(r4)
              ELSE [r4 EXCEPT !.outcome = "cancelled",
                              !.removed = TRUE,
                              !.status = "PDF generation cancelled"]
     ELSE IF env.fault = "run" THEN PdfException(r5)
     ELSE IF env.proc = "timeout"
       THEN [r5 EXCEPT !.outcome = "timeout",
                       !.status = "PDF generation timed out",
                       !.dialogs = r5.dialogs \o << TimeoutDialog >>]
     ELSE PdfAfterRun([r5 EXCEPT !.returncode = env.returncode,
                                 !.pdf_made = env.pdf_exists], env)

\* faulty variant: the try block is entered whether pdflatex was found or not
PdfCall_unchecked(env) == [PdfTry(env) EXCEPT !.which = env.which]

\* generate_pdf.  env is what the environment and the user answer along the
\* way: which (shutil.which finds pdflatex), disk (the image files that
\* exist), response (the answer to the missing-images question), proc
\* (pdflatex ends or times out), returncode, pdf_exists, log, save_path
\* (the answer to the save dialog, "" when cancelled), fault.
PdfCall(env) ==
  IF ~env.which
    THEN [PdfNothing EXCEPT !.env = env,
                            !.which = FALSE,
                            !.outcome = "no_pdflatex",
                            !.dialogs = << NoPdflatexDialog >>]
    ELSE PdfTry(env)

SavePath == "/home/op/qsl_card.pdf"

\* a run in which nothing goes wrong and the user saves the PDF
GoodRun ==
  [which |-> TRUE, disk |-> DefaultImages, response |-> TRUE,
   proc |-> "done", returncode |-> 0, pdf_exists |-> TRUE,
   log |-> "clean", save_path |-> SavePath, fault |-> "none"]

\* the environments generate_pdf is run in
PdfEnvs ==
  {[GoodRun EXCEPT !.which = FALSE]}
  \cup {[GoodRun EXCEPT !.fault = f] : f \in PdfFaults}
  \cup {[GoodRun EXCEPT !.disk = d, !.response = a, !.fault = f] :
          d \in Disks, a \in BOOLEAN, f \in {"none", "rmtree"}}
  \cup {[GoodRun EXCEPT !.disk = d, !.proc = "timeout"] : d \in Disks}
  \cup {[GoodRun EXCEPT !.returncode = c, !.pdf_exists = p, !.save_path = s] :
          c \in {0, 1}, p \in BOOLEAN, s \in {"", SavePath}}
  \cup {[GoodRun EXCEPT !.returncode = c, !.pdf_exists = FALSE, !.log = l,
                        !.fault = f] :
          c \in {0, 1}, l \in Logs, f \in {"none", "read_log"}}

\* faulty variant: the names of the default images are written into the
\* empty image entries of the form
generate_pdf_fills_images ==
  /\ gui
  /\ \E call \in {RenderRecord("generate_pdf")}, env \in PdfEnvs :
       \E r \in {PdfCall(env)} :
          LET leaked == r.created /\ ~r.removed
          IN /\ leaked => scratch < MaxScratch
             /\ last' = r
             /\ dialogs' = r.dialogs
             /\ status_label' =
                  IF r.status = "" THEN status_label ELSE r.status
             /\ scratch' = IF leaked THEN scratch + 1 ELSE scratch
             /\ IF r.rendered
                  THEN rendered' = call
                  ELSE UNCHANGED rendered
  /\ UNCHANGED << gui, data, output_text, file, saved_form,
                  nFileChanges,
                  nEdits, nDefaultLoads,
                  clipboard, tex_file >>
  /\ fields' =
       [n \in DOMAIN fields |->
          IF n \in {"background_image", "logo1", "logo2", "logo3"}
             /\ fields[n] = ""
            THEN defaults[n]
            ELSE fields[n]]

\* "Generate PDF"
generate_pdf ==
  /\ gui
  /\ \E call \in {RenderRecord("generate_pdf")}, env \in PdfEnvs :
       \E r \in {PdfCall(env)} :
          LET leaked == r.created /\ ~r.removed
          IN /\ leaked => scratch < MaxScratch
             /\ last' = r
             /\ dialogs' = r.dialogs
             /\ status_label' =
                  IF r.status = "" THEN status_label ELSE r.status
             /\ scratch' = IF leaked THEN scratch + 1 ELSE scratch
             /\ IF r.rendered
                  THEN rendered' = call
                  ELSE UNCHANGED rendered
  /\ UNCHANGED << gui, fields, data, output_text, file, saved_form,
                  nFileChanges,
                  nEdits, nDefaultLoads,
                  clipboard, tex_file >>

(***************************************************************************)
(* The specification.                                                      *)
(***************************************************************************)
\* the user edits the form
UserEdits ==
  \/ \E n \in EditTargets, v \in EditValues : EditEntry(n, v)
  \/ \E n \in ChoiceFields : \E v \in RadioValues(n) : SelectRadio(n, v)

\* construction and the handlers that read and write the settings file
FormHandlers ==
  \/ Restart
  \/ \E answer \in BOOLEAN : clear_contact_fields(answer)
  \/ \E fault \in SaveFaults : save_settings(fault)
  \/ \E fault \in LoadFaults : load_settings(fault)

\* the settings file changes under the running program
FileChanges == \E fl \in ExternalFiles : FileChanged(fl)

\* what a caller does with a form constructed in command-line mode
CliActions ==
  \/ \E n \in FieldNames, v \in DataValues : SetData(n, v)
  \/ \E n \in FieldNames : DelData(n)
  \/ CallGenerateLatexCode

\* the output pane: the user types in it, "Save LaTeX", "Copy to Clipboard"
PaneActions ==
  \/ \E value \in PaneValues : EditOutput(value)
  \/ \E filename \in TexFilenames, fault \in SaveFaults :
        save_to_file(filename, fault)
  \/ copy_to_clipboard

Next ==
  \/ UserEdits
  \/ FormHandlers
  \/ FileChanges
  \/ CliActions
  \/ generate_latex
  \/ PaneActions
  \/ generate_pdf

Spec == Init /\ [][Next]_vars

\* the form, the settings file and their handlers
SpecSettings == Init /\ [][UserEdits \/ FormHandlers \/ FileChanges]_vars

\* the form and the rendering of the document
SpecRender ==
  Init /\ [][UserEdits \/ FormHandlers \/ CliActions \/ generate_latex]_vars

\* the form, the rendering and the generation of the PDF
SpecPdf ==
  Init /\ [][UserEdits \/ Restart \/ generate_latex \/ generate_pdf]_vars

\* the radio buttons, the settings file, "Generate LaTeX" and "Generate PDF"
SpecCalls ==
  Init /\ [][\/ \E n \in ChoiceFields :
                  \E v \in RadioValues(n) : SelectRadio(n, v)
             \/ \E fault \in SaveFaults : save_settings(fault)
             \/ \E fault \in LoadFaults : load_settings(fault)
             \/ generate_latex
             \/ generate_pdf]_vars

\* the radio buttons, "Generate LaTeX", "Save LaTeX" and "Generate PDF"
SpecFrame ==
  Init /\ [][\/ \E n \in ChoiceFields :
                  \E v \in RadioValues(n) : SelectRadio(n, v)
             \/ generate_latex
             \/ \E filename \in TexFilenames, fault \in SaveFaults :
                  save_to_file(filename, fault)
             \/ generate_pdf]_vars

\* the form, the output pane and what is exported from it
SpecExport ==
  Init /\ [][UserEdits \/ Restart \/ generate_latex \/ PaneActions]_vars

(***************************************************************************)
(* Properties of generate_latex_code, stated of its last call (rendered).  *)
(***************************************************************************)
\* the replacement field of the f-string that holds the local variable name
SlotOf(name) == CHOOSE i \in 1..Len(Slots) : Slots[i] = name

Called == rendered.by # "none"

\* the text put at the replacement field of the local variable name
At(name) == rendered.slots[SlotOf(name)]

\* the choice fields with the marker of each of their two literals
Markers ==
  { <<"qth_type", "home", "home_check">>,
    <<"qth_type", "portable", "portable_check">>,
    <<"qsl_type", "qso", "qso_check">>,
    <<"qsl_type", "swl", "swl_check">>,
    <<"qsl_request", "pse", "pse_check">>,
    <<"qsl_request", "tnx", "tnx_check">> }

\* the first literal of each pair and the markers of the pair
Pairs ==
  { <<"qth_type", "home", "home_check", "portable_check">>,
    <<"qsl_type", "qso", "qso_check", "swl_check">>,
    <<"qsl_request", "pse", "pse_check", "tnx_check">> }

ImageDefault(name) ==
  CASE name = "background_image" -> "foto_antenas.jpg"
    [] name = "logo1" -> "logo_ure_negro.png"
    [] name = "logo1_scale" -> "0.07"
    [] name = "logo2" -> "qrz_com.png"
    [] name = "logo2_scale" -> "0.2"
    [] name = "logo3" -> "lotw.png"
    [] name = "logo3_scale" -> "0.1"

\* C2: at the template position of each of the seven defaultable fields the
\* document holds the field's own value when that is non-empty, and the
\* field's literal default when the value is empty or the field is absent.
C2_DefaultOnlyWhenEmpty ==
  Called =>
    \A n \in ImageFields :
      /\ \E i \in 1..Len(Slots) : Slots[i] = n
      /\ \A i \in 1..Len(Slots) :
           Slots[i] = n =>
             rendered.slots[i] =
               IF rendered.inputs[n] = ""
                 THEN ImageDefault(n)
                 ELSE rendered.inputs[n]

\* a document generated with logo1 empty (its default is used) and
\* logo1_scale given (its value is used, not the default)
C2_Witness ==
  /\ Called
  /\ rendered.inputs["logo1"] = ""
  /\ At("logo1") = "logo_ure_negro.png"
  /\ rendered.inputs["logo1_scale"] = "0.5"
  /\ At("logo1_scale") = "0.5"

\* the fields that are neither defaultable nor choice fields
PassThroughFields == FieldNames \ (ImageFields \cup ChoiceFields)

\* C3: every field that is neither a defaultable field nor a choice field has
\* a position in the template, and the text at each of its positions is the
\* value get_field_value returned for it, unchanged (the empty string for an
\* empty or absent field).
C3_PassThroughRaw ==
  Called =>
    \A n \in PassThroughFields :
      /\ \E i \in 1..Len(Slots) : Slots[i] = n
      /\ \A i \in 1..Len(Slots) :
           Slots[i] = n => rendered.slots[i] = rendered.inputs[n]

\* a document generated with LaTeX special characters in one such field and
\* nothing in another
C3_Witness ==
  /\ Called
  /\ \E n \in PassThroughFields :
       rendered.inputs[n] = "R&D_5%" /\ At(n) = "R&D_5%"
  /\ rendered.inputs["power"] = ""
  /\ At("power") = ""

\* C4: when a choice field holds one of its two literals, the marker of that
\* literal is checked and the other marker of the pair is unchecked; with
\* callsign EA7HQL and home/qso/tnx, the home, qso and tnx markers are
\* checked, the portable, swl and pse markers are unchecked, and the large
\* callsign block (the first callsign position) holds EA7HQL.
C4_ChosenLiteralChecked ==
  Called =>
    /\ \A m \in Markers, o \in Markers :
         (m[1] = o[1] /\ m[2] # o[2] /\ rendered.inputs[m[1]] = m[2]) =>
           At(m[3]) = Checked /\ At(o[3]) = Unchecked
    /\ (/\ rendered.inputs["callsign"] = "EA7HQL"
        /\ rendered.inputs["qth_type"] = "home"
        /\ rendered.inputs["qsl_type"] = "qso"
        /\ rendered.inputs["qsl_request"] = "tnx") =>
         /\ At("home_check") = Checked
         /\ At("qso_check") = Checked
         /\ At("tnx_check") = Checked
         /\ At("portable_check") = Unchecked
         /\ At("swl_check") = Unchecked
         /\ At("pse_check") = Unchecked
         /\ rendered.slots[2] = "EA7HQL"
         /\ Slots[2] = "callsign"

\* a document generated from the built-in defaults
C4_Witness ==
  /\ Called
  /\ rendered.inputs["callsign"] = "EA7HQL"
  /\ rendered.inputs["qth_type"] = "home"
  /\ rendered.inputs["qsl_type"] = "qso"
  /\ rendered.inputs["qsl_request"] = "tnx"
  /\ At("tnx_check") = Checked

AllowList == StationFields \cup EquipmentFields \cup ImageFields

\* C6: the mapping a successful save_settings writes has only keys of the
\* allow-list of 21 identity, equipment and image/logo fields, and none of the
\* nine contact fields or three choice fields, whatever the form holds.
C6_SavedKeysAllowListed ==
  (last.op = "save_settings" /\ last.ok) =>
     /\ file.exists /\ file.valid
     /\ Cardinality(AllowList) = 21
     /\ DOMAIN file.settings \subseteq AllowList
     /\ DOMAIN file.settings \cap (ContactEntryFields \cup ChoiceFields) = {}

\* the settings were saved from a form with a contact field filled in and a
\* choice field set
C6_Witness ==
  /\ last.op = "save_settings"
  /\ last.ok
  /\ fields["their_call"] = "DL1XYZ"
  /\ fields["qth_type"] = "mobile"
  /\ "callsign" \in DOMAIN file.settings

\* C7: a load_settings that reads the existing settings file sets every form
\* field named by a key of the file to the file's value, in place of what the
\* field held, and leaves every other form field as it was.
C7_LoadOverwritesOnlyFileKeys ==
  [][(last'.op = "load_settings" /\ last'.outcome = "loaded") =>
       \A n \in FieldNames :
         fields'[n] = IF n \in DOMAIN file.settings
                        THEN file.settings[n]
                        ELSE fields[n]]_vars

\* the file was loaded into a form that held the defaults and an edited
\* power: callsign was replaced, qth_city and power, which the file does not
\* name, were kept
C7_Witness ==
  /\ last.op = "load_settings"
  /\ last.outcome = "loaded"
  /\ file = HandEdited1
  /\ fields["callsign"] = "K1ABC"
  /\ fields["qth_city"] = "Torremolinos"
  /\ fields["power"] = "R&D_5%"

\* C8: a form constructed while the settings file is the one the last
\* save_settings wrote holds, in every allow-listed field, the value the saved
\* form held; its contact entries are empty and its choice fields hold the
\* values they are created with.
C8_SaveThenFreshLoad ==
  (last.op = "__init__" /\ gui /\ saved_form # EmptyMap) =>
     /\ DOMAIN saved_form = AllowList
     /\ \A n \in AllowList : fields[n] = saved_form[n]
     /\ \A n \in ContactEntryFields : fields[n] = ""
     /\ \A n \in ChoiceFields : fields[n] = StringVarInitial(n)

\* a form loaded from a hand-edited file (their_call and qth_type set), power
\* edited, saved, and the program started again
C8_Witness ==
  /\ last.op = "__init__"
  /\ gui
  /\ saved_form # EmptyMap
  /\ saved_form["callsign"] = "K1ABC"
  /\ saved_form["power"] = "R&D_5%"
  /\ fields["power"] = "R&D_5%"
  /\ fields["their_call"] = ""

\* C9: a form constructed while there is no settings file holds the built-in
\* defaults exactly: the literals in the ten identity and seven image/logo
\* fields, empty equipment and contact fields, home/qso/tnx in the choice
\* fields; no message box is shown and the status bar says defaults were
\* loaded.
C9_NoFileGivesDefaults ==
  (last.op = "__init__" /\ gui /\ ~file.exists) =>
     /\ fields = CliDefaults
     /\ \A n \in EquipmentFields \cup ContactEntryFields : fields[n] = ""
     /\ fields["cq_zone"] = "14" /\ fields["itu_zone"] = "37"
     /\ fields["qth_type"] = "home"
     /\ fields["qsl_type"] = "qso"
     /\ fields["qsl_request"] = "tnx"
     /\ dialogs = << >>
     /\ status_label = "Default values loaded (no saved settings found)"

\* the settings file was removed and the program started again
C9_Witness ==
  /\ last.op = "__init__"
  /\ gui
  /\ ~file.exists
  /\ nFileChanges = 1
  /\ fields["callsign"] = "EA7HQL"

(***************************************************************************)
(* Properties of generate_pdf.                                             *)
(***************************************************************************)
\* C10: when pdflatex is not found, generate_pdf shows the missing-tool error
\* and returns: no document is rendered, no temporary directory is created,
\* no document or image is staged and pdflatex is not run.
C10_NoPdflatexNoScratchWork ==
  (last.op = "generate_pdf" /\ ~last.which) =>
     /\ last.outcome = "no_pdflatex"
     /\ dialogs = << NoPdflatexDialog >>
     /\ ~last.rendered
     /\ ~last.created
     /\ ~last.tex_written
     /\ last.staged = {}
     /\ ~last.invoked
     /\ ~last.pdf_made
     /\ last.saved_to = ""

\* "Generate PDF" was clicked on a machine without pdflatex, after a
\* document had been generated
C10_Witness ==
  /\ last.op = "generate_pdf"
  /\ ~last.which
  /\ last.outcome = "no_pdflatex"
  /\ output_text # ""

\* the image files generate_pdf refers to, read off the form
ReferencedImages ==
  { IF get_field_value(n) = "" THEN ImageDefault(n) ELSE get_field_value(n) :
      n \in {"background_image", "logo1", "logo2", "logo3"} }

\* the last handler was generate_pdf and it got as far as looking for the
\* images without an exception
ImagesLookedFor ==
  /\ last.op = "generate_pdf"
  /\ last.which
  /\ last.env.fault \notin {"mkdtemp", "write_tex", "copy_image"}

\* C11 as the spec states it: when pdflatex exceeds its timeout, generate_pdf
\* reports the timeout and the scratch directory it created has been removed
\* when it returns.
C11_TimeoutRemovesScratch ==
  (last.op = "generate_pdf" /\ last.outcome = "timeout") =>
     /\ last.dialogs[Len(last.dialogs)] = TimeoutDialog
     /\ status_label = "PDF generation timed out"
     /\ last.created
     /\ last.removed

\* C12: missing images are not a failure by themselves: generate_pdf stages
\* the referenced images that exist and lists exactly the others in a
\* question; if the user declines, pdflatex is not run and the action ends as
\* cancelled; if the user accepts, pdflatex is run and the call goes on as it
\* does, with the same answers, when no image is missing.
C12_MissingImagesAreAWarning ==
  ImagesLookedFor =>
     /\ last.staged = ReferencedImages \cap last.env.disk
     /\ {last.missing[i] : i \in 1..Len(last.missing)} =
          ReferencedImages \ last.env.disk
     /\ IF ReferencedImages \subseteq last.env.disk
          THEN \A i \in 1..Len(last.dialogs) :
                 last.dialogs[i].title # "Missing Images"
          ELSE /\ last.dialogs[1] = MissingImagesDialog(last.missing)
               /\ last.dialogs[1].kind = "askyesno"
               /\ IF last.env.response
                    THEN \E full \in {PdfCall([last.env EXCEPT
                                                 !.disk = ReferencedImages])} :
                           /\ last.invoked
                           /\ full.invoked
                           /\ last.outcome = full.outcome
                           /\ last.returncode = full.returncode
                           /\ last.pdf_made = full.pdf_made
                           /\ last.saved_to = full.saved_to
                           /\ last.status = full.status
                           /\ Tail(last.dialogs) = full.dialogs
                    ELSE /\ ~last.invoked
                         /\ last.env.fault = "none" =>
                              /\ last.outcome = "cancelled"
                              /\ status_label = "PDF generation cancelled"
                              /\ Len(last.dialogs) = 1

\* only the background image exists; the user accepts and the PDF is saved
C12_Witness ==
  /\ ImagesLookedFor
  /\ last.env.disk = {"foto_antenas.jpg"}
  /\ last.staged = {"foto_antenas.jpg"}
  /\ Len(last.missing) = 3
  /\ last.env.response
  /\ last.invoked
  /\ last.outcome = "saved"

\* C13 as the spec states it: a pdflatex run that ends with a non-zero status
\* or leaves no PDF is reported as a failure (error box, status "PDF
\* generation failed") and never leads to the save dialog.
C13_NonZeroOrNoPdfIsFailure ==
  (/\ last.op = "generate_pdf"
   /\ last.invoked
   /\ last.outcome \notin {"timeout", "exception"}
   /\ (last.returncode # 0 \/ ~last.pdf_made)) =>
     /\ last.outcome = "failed"
     /\ status_label = "PDF generation failed"
     /\ last.dialogs[Len(last.dialogs)].kind = "showerror"
     /\ last.saved_to = ""

\* C14: when load_settings cannot read or parse the settings file, or
\* save_settings cannot write it, an error box with the message of the
\* exception is shown, the status bar reports it, and every form field holds
\* what it held before (for the constructor's load: what it was created with).
C14_FileErrorsLeaveFormAlone ==
  [][/\ (last'.op = "load_settings" /\ last'.outcome = "error") =>
          /\ fields' = fields
          /\ \E e \in {IOErrorText, JSONErrorText} :
               /\ dialogs' = << Dialog("showerror", "Error",
                                       "Failed to load settings: " \o e) >>
               /\ status_label' = "Error loading settings: " \o e
     /\ (last'.op = "__init__" /\ last'.outcome = "error") =>
          /\ fields' = NewWidgets
          /\ dialogs' = << Dialog("showerror", "Error",
                           "Failed to load settings: " \o JSONErrorText) >>
     /\ (last'.op = "save_settings" /\ ~last'.ok) =>
          /\ fields' = fields
          /\ dialogs' = << Dialog("showerror", "Error",
                           "Failed to save settings: " \o IOErrorText) >>
          /\ status_label' = "Error saving settings: " \o IOErrorText]_vars

\* "Load Defaults" on a form holding the defaults, after the settings file
\* was replaced by one that is not JSON
C14_Witness ==
  /\ last.op = "load_settings"
  /\ last.outcome = "error"
  /\ file = CorruptFile
  /\ fields["callsign"] = "EA7HQL"
  /\ fields["qth_type"] = "home"

\* C16: clear_contact_fields, confirmed, empties the nine contact entries,
\* sets qth_type, qsl_type, qsl_request to home, qso, tnx and leaves every
\* identity, equipment and image/logo field as it was; declined, it changes
\* no field.
C16_ClearOnlyContactFields ==
  [][(last'.op = "clear_contact_fields") =>
       IF last'.answer
         THEN \A n \in FieldNames :
                fields'[n] =
                  IF n \in {"via", "to_station", "their_call", "date", "time",
                            "band", "mode", "report", "portable_location"}
                    THEN ""
                    ELSE IF n = "qth_type" THEN "home"
                    ELSE IF n = "qsl_type" THEN "qso"
                    ELSE IF n = "qsl_request" THEN "tnx"
                    ELSE fields[n]
         ELSE fields' = fields]_vars

\* a form loaded from the hand-edited file (their_call DL1XYZ, qth_type
\* mobile) was cleared: the callsign is kept
C16_Witness ==
  /\ last.op = "clear_contact_fields"
  /\ last.answer
  /\ file = HandEdited1
  /\ fields["callsign"] = "K1ABC"
  /\ fields["their_call"] = ""
  /\ fields["qth_type"] = "home"
  /\ fields["qsl_request"] = "tnx"

\* C17 as the spec states it: on every path by which generate_pdf returns
\* after creating the scratch directory (other than the timeout), the
\* directory has been removed, and no scratch directory remains.
C17_ScratchRemovedOnEveryReturn ==
  (last.op = "generate_pdf" /\ last.created /\ last.outcome # "timeout") =>
     /\ last.removed
     /\ scratch = 0

\* C18 as the spec states it: with no settings file and no edit of the form,
\* after a "Load Defaults" that follows the constructor's load every
\* defaulted field holds its built-in default.
C18_LoadDefaultsIdempotent ==
  (/\ last.op = "load_settings"
   /\ last.outcome = "defaults"
   /\ nEdits = 0
   /\ nFileChanges = 0) =>
     \A n \in AllowList : fields[n] = CliDefaults[n]

\* C15: on every outcome of generate_pdf (missing tool, missing images
\* declined, compiler failure, timeout, other exception, success, save
\* cancelled) and of save_to_file, every form field holds the value it held
\* before the action.
C15_ExportsLeaveFormAlone ==
  [][(last'.op \in {"generate_pdf", "save_to_file"}) =>
       /\ fields' = fields
       /\ data' = data]_vars

\* pdflatex timed out on a form whose radio buttons had been changed
C15_Witness ==
  /\ last.op = "generate_pdf"
  /\ last.outcome = "timeout"
  /\ nEdits = 1
  /\ fields["callsign"] = "EA7HQL"

\* the last handler was "Save LaTeX" or "Copy to Clipboard"
Exported == last.op \in {"save_to_file", "copy_to_clipboard"}

\* C19 as the spec states it: nothing is exported until LaTeX has been
\* generated; with a blank output pane save_to_file and copy_to_clipboard
\* only warn; otherwise what they export is the text the last generate_latex
\* put in the pane, which is what generate_latex_code returned then.
C19_ExportsWhatWasGenerated ==
  /\ rendered.by = "none" => (clipboard = "" /\ tex_file = NoTexFile)
  /\ (Exported /\ output_text = "") => last.outcome = "warned"
  /\ (Exported /\ last.outcome \in {"saved", "copied"}) =>
       /\ rendered.by = "generate_latex"
       /\ last.content = rendered.text
       /\ last.op = "save_to_file" => tex_file.content = rendered.text
       /\ last.op = "copy_to_clipboard" => clipboard = rendered.text

\* C19 amended: while the output pane is empty or white space only,
\* save_to_file and copy_to_clipboard only warn and write no file and no
\* clipboard content; otherwise copy_to_clipboard puts on the clipboard, and
\* save_to_file writes to the chosen file (unless the dialog is cancelled or
\* the write fails), the present content of the pane followed by a newline.
\* Neither changes the pane, and the pane holds a text the user typed in it
\* or else the text the last generate_latex put there, not one rendered from
\* later field edits.
C19_ExportsPaneAsIs ==
  [][(last'.op \in {"save_to_file", "copy_to_clipboard"}) =>
       /\ output_text' = output_text
       /\ rendered' = rendered
       /\ output_text \notin PaneValues =>
            (rendered.by = "generate_latex" /\ output_text = rendered.text)
       /\ IF output_text \in {"", " \n "}
            THEN /\ last'.outcome = "warned"
                 /\ dialogs' = << GenerateFirstDialog >>
                 /\ clipboard' = clipboard
                 /\ tex_file' = tex_file
            ELSE IF last'.op = "copy_to_clipboard"
              THEN /\ last'.outcome = "copied"
                   /\ clipboard' = output_text \o "\n"
                   /\ tex_file' = tex_file
              ELSE /\ clipboard' = clipboard
                   /\ last'.outcome \in {"saved", "cancelled", "error"}
                   /\ last'.outcome = "saved" =>
                        /\ tex_file'.name # ""
                        /\ tex_file'.content = output_text \o "\n"
                   /\ last'.outcome = "cancelled" => tex_file' = tex_file
                   /\ last'.outcome = "error" =>
                        \/ tex_file' = tex_file
                        \/ tex_file'.content = ""]_vars

\* the generated document was copied after a field had been edited: the
\* clipboard holds the document as generated, with a newline
C19_Witness ==
  /\ last.op = "copy_to_clipboard"
  /\ last.outcome = "copied"
  /\ rendered.by = "generate_latex"
  /\ clipboard = rendered.text \o "\n"
  /\ rendered.inputs # [n \in FieldNames |-> get_field_value(n)]

=============================================================================
